---- MODULE Spec2Model ----
(***************************************************************************)
(* Model of examples/reprsimil/bayesian_rsa_example.ipynb: the synthetic   *)
(* fMRI simulator (spatially correlated AR(1) noise plus signal drawn from *)
(* a shared condition covariance and a Gaussian-Process SNR map), the      *)
(* scan-onset computation, the call of the BRSA estimator and the          *)
(* point-estimate regression.                                              *)
(*                                                                         *)
(* Numbers.  The notebook computes in floating point.  The simulator is    *)
(* modelled in fixed point: a real x is held as the integer x * FP         *)
(* (two decimals), covariance entries as x * FP2 (four decimals); a        *)
(* product or quotient rounds down once, square root and exp are the       *)
(* rounded-down integer versions.  Indices are 0-based as in the notebook. *)
(* The correlation matrix is computed in binary floating point with a      *)
(* shortened mantissa (SpecCorr), the least-squares round trip in exact    *)
(* rational arithmetic (SpecOLS), and the estimator's fit call, which is   *)
(* library code, on its own for any arguments (SpecFit).                   *)
(***************************************************************************)
EXTENDS Integers, Sequences, FiniteSets, TLC

\* ------------------------------------------------------------------------
\* Bounds of the model
\* ------------------------------------------------------------------------
MaxSeed == 1
MaxRun == 2
MaxTR == 2

\* fixed-point units: FP for values, FP2 for covariance entries
FP == 10 * 10
FP2 == FP * FP

\* values of the inputs the notebook fixes as literals, varied by the model
ROIEdges == {1, 2}
NoiseBounds == {<<50, 500>>, <<0, 0>>}
RhoBounds == {<<-20, 80>>, <<0, 0>>}
NoiseWidths == {1000, 100}
CovLiterals == {<<60, 80, 100>>, <<60, 100, 100>>}
Taus == {80, 0}
DesignFiles == {0, 1}
DesignColumns == {13, 5}

\* ------------------------------------------------------------------------
\* Fixed-point arithmetic
\* ------------------------------------------------------------------------
Abs(x) == IF x < 0 THEN -x ELSE x

\* x * y of two FP values, as an FP value
FMul(x, y) == (x * y) \div FP

\* x / y of two FP values, as an FP value (y # 0)
FDiv(x, y) == (x * FP) \div y

RECURSIVE ISqrtFrom(_, _)
ISqrtFrom(x, r) == IF (r + 1) * (r + 1) > x THEN r ELSE ISqrtFrom(x, r + 1)

RECURSIVE ISqrtBin(_, _, _)
ISqrtBin(x, lo, hi) ==
    IF hi - lo <= 4 THEN ISqrtFrom(x, lo)
    ELSE LET mid == (lo + hi) \div 2
         IN IF mid * mid <= x THEN ISqrtBin(x, mid, hi)
            ELSE ISqrtBin(x, lo, mid)

\* floor of the square root of x >= 0 (x below 2^30)
ISqrt(x) == ISqrtBin(x, 0, 32768)

\* sqrt of an FP value, as an FP value
FSqrt(x) == ISqrt(x * FP)

RECURSIVE Sum(_, _)
\* f[0] + ... + f[n - 1]
Sum(f, n) == IF n = 0 THEN 0 ELSE Sum(f, n - 1) + f[n - 1]

\* exp(-y) for y >= 0, argument and result in FP2 units: halve the argument
\* until it is at most 1/2, sum the series there, square back
ExpNegSeries(y) ==
    LET t1 == y
        t2 == (t1 * y) \div (2 * FP2)
        t3 == (t2 * y) \div (3 * FP2)
        t4 == (t3 * y) \div (4 * FP2)
        t5 == (t4 * y) \div (5 * FP2)
        t6 == (t5 * y) \div (6 * FP2)
    IN FP2 - t1 + t2 - t3 + t4 - t5 + t6

RECURSIVE ExpNeg(_)
ExpNeg(y) ==
    IF y <= FP2 \div 2 THEN ExpNegSeries(y)
    ELSE LET h == ExpNeg(y \div 2)
         IN (h * h) \div FP2

\* np.exp of an FP value, as an FP value
FExp(x) ==
    IF x >= 0 THEN (FP2 * FP) \div ExpNeg(x * FP)
    ELSE ExpNeg((-x) * FP) \div FP

\* ------------------------------------------------------------------------
\* State
\* ------------------------------------------------------------------------
VARIABLES
    pc,               \* the statement the notebook run is at
    err,              \* the exception that stopped the run, if any
    lit,              \* the literals of the notebook text
    example_design,   \* the content of example_design.1D
    np_random,        \* state of numpy's module-level generator
    draws,            \* the np.random calls made so far, in order
    design,           \* design.n_TR, design.design_task
    n_C, n_V, n_T,
    noise_level, rho1, dist2, K_noise, L_noise,
    noise, i_t,
    ideal_cov, L_full,
    inten, K, L, snr, sqrt_v, betas_simulated, signal, Y,
    scan_onsets,
    brsa,             \* the estimator object after BRSA(...) and fit(...)
    ideal_corr,       \* cell 14: correlation derived from ideal_cov
    regressor, betas_point,   \* cell 24: point estimates by least squares
    fit_args          \* the arguments of a brsa.fit call

simVars == <<pc, err, lit, example_design, np_random, draws, design,
             n_C, n_V, n_T, noise_level, rho1, dist2, K_noise, L_noise,
             noise, i_t, ideal_cov, L_full, inten, K, L, snr, sqrt_v,
             betas_simulated, signal, Y, scan_onsets, brsa>>

auxVars == <<ideal_corr, regressor, betas_point, fit_args>>

vars == <<simVars, auxVars>>

\* a name the notebook has not assigned yet
Unset == <<>>

NoError == [type |-> "none", msg |-> "", at |-> "none"]

\* ------------------------------------------------------------------------
\* numpy's generator: one hidden state behind np.random.seed / rand / randn
\* ------------------------------------------------------------------------
LcgMod == 2 * 8

\* the generator's state transition (a full-period congruential step)
Advance(st) == (5 * st + 3) % LcgMod

RECURSIVE AdvanceSteps(_, _)
AdvanceSteps(st, k) == IF k = 0 THEN st ELSE AdvanceSteps(Advance(st), k - 1)

\* the state after k variates; the generator returns to a state after
\* LcgMod steps
AdvanceBy(st, k) == AdvanceSteps(st, k % LcgMod)

\* np.random.seed(s)
SeedState(s) == s % LcgMod

\* the n raw variates the generator hands out from state st
RawVariates(st, n) == [k \in 0 .. n - 1 |-> AdvanceBy(st, k + 1)]

\* np.random.rand(n): uniform on [0, 1), FP units
Rand(st, n) == [k \in 0 .. n - 1 |-> (RawVariates(st, n)[k] * FP) \div LcgMod]

\* np.random.randn(n): standard normal draws, FP units (-1, -0.5, 0, 0.5, 1)
Randn(st, n) ==
    [k \in 0 .. n - 1 |-> ((RawVariates(st, n)[k] % 5) - 2) * (FP \div 2)]

\* one entry of the call log
Call(what, fn, n, vals) ==
    [what |-> what, via |-> fn, n |-> n, vals |-> vals]

\* ------------------------------------------------------------------------
\* Matrices (functions of 0-based indices)
\* ------------------------------------------------------------------------
\* np.dot(M, x) for an n x n matrix of FP values and a vector of FP values
Dot(M, x, n) ==
    [i \in 0 .. n - 1 |-> Sum([k \in 0 .. n - 1 |-> FMul(M[i][k], x[k])], n)]

Symmetric(M, n) == \A i, j \in 0 .. n - 1 : M[i][j] = M[j][i]

RECURSIVE CholRow(_, _, _, _, _)
\* row i of the factor from entry j onwards (Cholesky-Banachiewicz); Lacc
\* holds the rows above, row the entries of row i found so far.  K in FP2
\* units, factor in FP units.  A pivot that is not positive stops the
\* factorization, as LAPACK's potrf does.
CholRow(Km, Lacc, i, j, row) ==
    LET s == Sum([k \in 0 .. j - 1 |->
                    row[k] * (IF j = i THEN row[k] ELSE Lacc[j][k])], j)
    IN IF j = i
       THEN IF Km[i][i] - s <= 0
            THEN [ok |-> FALSE, row |-> row]
            ELSE [ok |-> TRUE, row |-> [row EXCEPT ![i] = ISqrt(Km[i][i] - s)]]
       ELSE CholRow(Km, Lacc, i, j + 1,
                    [row EXCEPT ![j] = (Km[i][j] - s) \div Lacc[j][j]])

RECURSIVE CholRows(_, _, _, _)
CholRows(Km, n, i, Lacc) ==
    IF i = n THEN [ok |-> TRUE, L |-> Lacc]
    ELSE LET r == CholRow(Km, Lacc, i, 0, [j \in 0 .. n - 1 |-> 0])
         IN IF r.ok THEN CholRows(Km, n, i + 1, [Lacc EXCEPT ![i] = r.row])
            ELSE [ok |-> FALSE, L |-> Lacc]

\* np.linalg.cholesky(K): the lower factor, or failure
Cholesky(Km, n) ==
    CholRows(Km, n, 0, [i \in 0 .. n - 1 |-> [j \in 0 .. n - 1 |-> 0]])

LinAlgError(where) ==
    [type |-> "LinAlgError", msg |-> "Matrix is not positive definite",
     at |-> where]

\* ------------------------------------------------------------------------
\* Cell 7: the design matrix, tiled by the number of runs
\* ------------------------------------------------------------------------
\* utils.ReadDesign(fname="example_design.1D"): the file's n_TR rows and
\* n_col columns of response amplitudes between -0.2 and 0.4
ReadDesign(file) ==
    [n_TR |-> file.n_TR,
     n_col |-> file.n_col,
     design_task |->
        [t \in 0 .. file.n_TR - 1 |->
            [c \in 0 .. file.n_col - 1 |->
                (((3 * t + 2 * c + file.id * (t + 1)) % 7) - 2) * 10]]]

\* np.tile(design_task[:, :-1], [n_run, 1])
TileDesign(d, n_run) ==
    [t \in 0 .. d.n_TR * n_run - 1 |->
        [c \in 0 .. d.n_col - 2 |-> d.design_task[t % d.n_TR][c]]]

Cell7 ==
    /\ pc = "cell7"
    /\ LET d == ReadDesign(example_design)
       IN /\ design' = [n_TR |-> d.n_TR * lit.n_run,
                        design_task |-> TileDesign(d, lit.n_run)]
          /\ n_C' = d.n_col - 1
          /\ n_V' = lit.ROI_edge * lit.ROI_edge
          /\ n_T' = d.n_TR * lit.n_run
    /\ pc' = "cell9"
    /\ UNCHANGED <<err, lit, example_design, np_random, draws,
                   noise_level, rho1, dist2, K_noise, L_noise, noise, i_t,
                   ideal_cov, L_full, inten, K, L, snr, sqrt_v,
                   betas_simulated, signal, Y, scan_onsets, brsa>>
    /\ UNCHANGED auxVars

\* ------------------------------------------------------------------------
\* Cell 9: noise, a Gaussian Process in space and AR(1) in time
\* ------------------------------------------------------------------------
\* coords_flat = np.reshape(np.mgrid[0:E, 0:E, 0:1], [3, n_V]).T
CoordsFlat(E) == [v \in 0 .. E * E - 1 |-> <<v \div E, v % E, 0>>]

\* spdist.squareform(spdist.pdist(coords_flat, 'sqeuclidean'))
Dist2(E) ==
    LET c == CoordsFlat(E)
    IN [i \in 0 .. E * E - 1 |-> [j \in 0 .. E * E - 1 |->
          (c[i][1] - c[j][1]) * (c[i][1] - c[j][1])
        + (c[i][2] - c[j][2]) * (c[i][2] - c[j][2])
        + (c[i][3] - c[j][3]) * (c[i][3] - c[j][3])]]

\* np.exp(-d2 / width**2 / 2.0) for an integer d2 and an FP width, FP2 units
SqExpKernel(d2, width) == ExpNeg((d2 * FP2 * FP2) \div (2 * width * width))

\* KNoise scaling both sides by the row's noise level
KNoise_RowScaledTwice(nl, d2, width, n) ==
    [i \in 0 .. n - 1 |-> [j \in 0 .. n - 1 |->
        (((nl[i] * nl[i]) \div 10)
            * (SqExpKernel(d2[i][j], width) \div 10
               + (IF i = j THEN FP ELSE 0))) \div 1000]]

\* noise_level[:, None] * (exp(-dist2 / w**2 / 2) + eye * 0.1) * noise_level
KNoise(nl, d2, width, n) ==
    [i \in 0 .. n - 1 |-> [j \in 0 .. n - 1 |->
        (((nl[i] * nl[j]) \div 10)
            * (SqExpKernel(d2[i][j], width) \div 10
               + (IF i = j THEN FP ELSE 0))) \div 1000]]

\* the uniform draws scaled by the upper bound instead of the range
ScaleToRange_ByTop(u, bot, top, n) ==
    [v \in 0 .. n - 1 |-> FMul(u[v], top) + bot]

\* u * (top - bot) + bot for a vector u of n uniform draws
ScaleToRange(u, bot, top, n) ==
    [v \in 0 .. n - 1 |-> FMul(u[v], top - bot) + bot]

Cell9_Params ==
    /\ pc = "cell9"
    /\ LET st1 == AdvanceBy(np_random, n_V)
           u1 == Rand(np_random, n_V)
           u2 == Rand(st1, n_V)
           nl == ScaleToRange(u1, lit.noise_bot, lit.noise_top, n_V)
           d2 == Dist2(lit.ROI_edge)
       IN /\ noise_level' = nl
          /\ rho1' = ScaleToRange(u2, lit.rho1_bot, lit.rho1_top, n_V)
          /\ dist2' = d2
          /\ K_noise' = KNoise(nl, d2, lit.noise_smooth_width, n_V)
          /\ np_random' = AdvanceBy(st1, n_V)
          /\ draws' = draws \o <<Call("noise_level", "np.random.rand", n_V, u1),
                                 Call("rho1", "np.random.rand", n_V, u2)>>
    /\ pc' = "chol_noise"
    /\ UNCHANGED <<err, lit, example_design, design, n_C, n_V, n_T, L_noise,
                   noise, i_t, ideal_cov, L_full, inten, K, L, snr, sqrt_v,
                   betas_simulated, signal, Y, scan_onsets, brsa>>
    /\ UNCHANGED auxVars

\* L_noise = np.linalg.cholesky(K_noise); noise = np.zeros([n_T, n_V])
Cell9_Cholesky ==
    /\ pc = "chol_noise"
    /\ LET c == Cholesky(K_noise, n_V)
       IN IF c.ok
          THEN /\ L_noise' = c.L
               /\ noise' = [t \in 0 .. n_T - 1 |-> [v \in 0 .. n_V - 1 |-> 0]]
               /\ pc' = "noise0"
               /\ err' = err
          ELSE /\ err' = LinAlgError("L_noise")
               /\ pc' = "error"
               /\ UNCHANGED <<L_noise, noise>>
    /\ UNCHANGED <<lit, example_design, np_random, draws, design, n_C, n_V,
                   n_T, noise_level, rho1, dist2, K_noise, i_t, ideal_cov,
                   L_full, inten, K, L, snr, sqrt_v, betas_simulated, signal,
                   Y, scan_onsets, brsa>>
    /\ UNCHANGED auxVars

\* the first row without the stationary-variance correction
StationaryRow_Unscaled(Ln, z, rho, n) == Dot(Ln, z, n)

\* the row a run starts with: np.dot(L_noise, z) / np.sqrt(1 - rho1**2)
StationaryRow(Ln, z, rho, n) ==
    LET e == Dot(Ln, z, n)
    IN [v \in 0 .. n - 1 |-> FDiv(e[v], FSqrt(FP - FMul(rho[v], rho[v])))]

\* NextRow carrying the previous row over undamped
NextRow_Undamped(prev, Ln, z, rho, n) ==
    LET e == Dot(Ln, z, n)
    IN [v \in 0 .. n - 1 |-> prev[v] + e[v]]

\* the row that follows prev: prev * rho1 + np.dot(L_noise, z)
NextRow(prev, Ln, z, rho, n) ==
    LET e == Dot(Ln, z, n)
    IN [v \in 0 .. n - 1 |-> FMul(prev[v], rho[v]) + e[v]]

\* noise[0, :] = np.dot(L_noise, np.random.randn(n_V)) / np.sqrt(1 - rho1**2)
Cell9_Row0 ==
    /\ pc = "noise0"
    /\ LET z == Randn(np_random, n_V)
       IN /\ noise' = [noise EXCEPT ![0] = StationaryRow(L_noise, z, rho1, n_V)]
          /\ draws' = Append(draws, Call("noise[0]", "np.random.randn", n_V, z))
    /\ np_random' = AdvanceBy(np_random, n_V)
    /\ i_t' = 1
    /\ pc' = "loop"
    /\ UNCHANGED <<err, lit, example_design, design, n_C, n_V, n_T,
                   noise_level, rho1, dist2, K_noise, L_noise, ideal_cov,
                   L_full, inten, K, L, snr, sqrt_v, betas_simulated, signal,
                   Y, scan_onsets, brsa>>
    /\ UNCHANGED auxVars

\* for i_t in range(1, n_T): noise[i_t, :] = noise[i_t - 1, :] * rho1 + ...
Cell9_Loop ==
    /\ pc = "loop"
    /\ i_t < n_T
    /\ LET z == Randn(np_random, n_V)
       IN /\ noise' = [noise EXCEPT
                         ![i_t] = NextRow(noise[i_t - 1], L_noise, z, rho1, n_V)]
          /\ draws' = Append(draws, Call("noise[i_t]", "np.random.randn", n_V, z))
    /\ np_random' = AdvanceBy(np_random, n_V)
    /\ i_t' = i_t + 1
    /\ UNCHANGED <<pc, err, lit, example_design, design, n_C, n_V, n_T,
                   noise_level, rho1, dist2, K_noise, L_noise, ideal_cov,
                   L_full, inten, K, L, snr, sqrt_v, betas_simulated, signal,
                   Y, scan_onsets, brsa>>
    /\ UNCHANGED auxVars

\* an offset that changes from one time point to the next
AddOffset_PerTimePoint(nz, o, nt, nv) ==
    [t \in 0 .. nt - 1 |-> [v \in 0 .. nv - 1 |-> nz[t][v] + o[(t + v) % nv]]]

\* noise + o for a vector o of n_V values: o is broadcast over the rows
AddOffset(nz, o, nt, nv) ==
    [t \in 0 .. nt - 1 |-> [v \in 0 .. nv - 1 |-> nz[t][v] + o[v]]]

\* noise = noise + np.random.randn(n_V)
Cell9_Offset ==
    /\ pc = "loop"
    /\ i_t >= n_T
    /\ LET o == Randn(np_random, n_V)
       IN /\ noise' = AddOffset(noise, o, n_T, n_V)
          /\ draws' = Append(draws, Call("offset", "np.random.randn", n_V, o))
    /\ np_random' = AdvanceBy(np_random, n_V)
    /\ pc' = "cell14"
    /\ UNCHANGED <<err, lit, example_design, design, n_C, n_V, n_T,
                   noise_level, rho1, dist2, K_noise, L_noise, i_t, ideal_cov,
                   L_full, inten, K, L, snr, sqrt_v, betas_simulated, signal,
                   Y, scan_onsets, brsa>>
    /\ UNCHANGED auxVars


\* ------------------------------------------------------------------------
\* Floating point (the correlation matrix is computed in it)
\* ------------------------------------------------------------------------
\* A binary float is sign * m * 2^e with m of exactly MantBits bits, or
\* zero, an infinity or nan.  The notebook's float64 has 53 bits; the
\* model keeps the format and the round-to-nearest-even of every operation
\* and shortens the mantissa.
MantBits == 4

RECURSIVE BitLen(_)
BitLen(q) == IF q = 0 THEN 0 ELSE 1 + BitLen(q \div 2)

Flt(s, m, e) == [k |-> "num", s |-> s, m |-> m, e |-> e]
FZero == Flt(1, 0, 0)
FInf(s) == [k |-> "inf", s |-> s, m |-> 0, e |-> 0]
FNan == [k |-> "nan", s |-> 1, m |-> 0, e |-> 0]
IsZero(x) == x.k = "num" /\ x.m = 0

\* s * q * 2^e (q > 0; sticky: a nonzero part below q was dropped) rounded
\* to the nearest float, ties to even
RoundTo(s, q, e, sticky) ==
    LET sh == BitLen(q) - MantBits
    IN IF sh <= 0 THEN Flt(s, q * 2 ^ (0 - sh), e + sh)
       ELSE LET hi == q \div 2 ^ sh
                lo == q % 2 ^ sh
                half == 2 ^ (sh - 1)
                up == lo > half \/ (lo = half /\ (sticky \/ hi % 2 = 1))
                r == IF up THEN hi + 1 ELSE hi
            IN IF r = 2 ^ MantBits
               THEN Flt(s, 2 ^ (MantBits - 1), e + sh + 1)
               ELSE Flt(s, r, e + sh)

\* s * (n / d) * 2^e for integers n, d > 0, rounded once
RoundRat(s, n, d, e) ==
    LET need == MantBits + 2 + BitLen(d) - BitLen(n)
        sc == IF need > 0 THEN need ELSE 0
        q == (n * 2 ^ sc) \div d
    IN RoundTo(s, q, e - sc, (n * 2 ^ sc) % d # 0)

\* the float nearest to the decimal x / FP2 (a literal such as 0.6)
FloatOfFixed(x) ==
    IF x = 0 THEN FZero
    ELSE RoundRat(IF x < 0 THEN -1 ELSE 1, Abs(x), FP2, 0)

\* x / y as IEEE 754 divides
FloatDiv(x, y) ==
    CASE x.k = "nan" \/ y.k = "nan" -> FNan
      [] x.k = "inf" /\ y.k = "inf" -> FNan
      [] x.k = "inf" -> FInf(x.s * y.s)
      [] y.k = "inf" -> FZero
      [] IsZero(y) -> IF IsZero(x) THEN FNan ELSE FInf(x.s * y.s)
      [] IsZero(x) -> FZero
      [] OTHER -> RoundRat(x.s * y.s, x.m, y.m, x.e - y.e)

\* x ** 0.5 (numpy takes the square root), correctly rounded
FloatSqrt(x) ==
    CASE x.k = "nan" -> FNan
      [] IsZero(x) -> FZero
      [] x.s < 0 -> FNan
      [] x.k = "inf" -> x
      [] OTHER ->
           LET sc == MantBits + 2 + ((x.e + MantBits) % 2)
               M == x.m * 2 ^ sc
               q == ISqrt(M)
           IN RoundTo(1, q, (x.e - sc) \div 2, q * q # M)

\* ------------------------------------------------------------------------
\* Cell 14: the ideal covariance matrix of the conditions
\* ------------------------------------------------------------------------
\* the block of conditions that covary: ideal_cov[8:12, 8:12], range(8, 12)
BlockLo == 8
BlockHi == 12

\* eye(n_C) * d; [8:12, 8:12] = b; [cond, cond] = bd for cond in range(8, 12)
\* (entries in FP2 units; cov = <<d, b, bd>> in FP units)
IdealCov(n, cov) ==
    [i \in 0 .. n - 1 |-> [j \in 0 .. n - 1 |->
        IF i \in BlockLo .. BlockHi - 1 /\ j \in BlockLo .. BlockHi - 1
        THEN (IF i = j THEN cov[3] ELSE cov[2]) * FP
        ELSE (IF i = j THEN cov[1] ELSE 0) * FP]]

\* std_diag = np.diag(ideal_cov)**0.5
StdDiag(U, n) == [i \in 0 .. n - 1 |-> FloatSqrt(U[i][i])]

\* every entry divided by the standard deviation of its own row twice
CorrFromCov_RowTwice(U, n) ==
    LET std_diag == StdDiag(U, n)
    IN [i \in 0 .. n - 1 |-> [j \in 0 .. n - 1 |->
           FloatDiv(FloatDiv(U[i][j], std_diag[i]), std_diag[i])]]

\* ideal_corr = ideal_cov / std_diag / std_diag[:, None]: entry [i, j] is
\* divided by std_diag[j] and the quotient by std_diag[i]
CorrFromCov(U, n) ==
    LET std_diag == StdDiag(U, n)
    IN [i \in 0 .. n - 1 |-> [j \in 0 .. n - 1 |->
           FloatDiv(FloatDiv(U[i][j], std_diag[j]), std_diag[i])]]

\* ideal_cov as the floats the notebook holds
FloatMatrix(U, n) ==
    [i \in 0 .. n - 1 |-> [j \in 0 .. n - 1 |-> FloatOfFixed(U[i][j])]]

IndexError(where) ==
    [type |-> "IndexError", msg |-> "index out of bounds", at |-> where]

Cell14 ==
    /\ pc = "cell14"
    /\ ideal_cov' = IdealCov(n_C, lit.cov)
    /\ IF n_C < BlockHi
       THEN \* ideal_cov[cond, cond] = 1 indexes past the last condition;
            \* the entries written before it stay
            /\ err' = IndexError("ideal_cov")
            /\ pc' = "error"
            /\ UNCHANGED ideal_corr
       ELSE /\ ideal_corr' = CorrFromCov(FloatMatrix(ideal_cov', n_C), n_C)
            /\ pc' = "cell16"
            /\ err' = err
    /\ UNCHANGED <<lit, example_design, np_random, draws, design, n_C, n_V,
                   n_T, noise_level, rho1, dist2, K_noise, L_noise, noise,
                   i_t, L_full, inten, K, L, snr, sqrt_v, betas_simulated,
                   signal, Y, scan_onsets, brsa>>
    /\ UNCHANGED <<regressor, betas_point, fit_args>>

\* ------------------------------------------------------------------------
\* Cell 16: pseudo-SNR from a Gaussian Process, betas, signal, data
\* ------------------------------------------------------------------------
\* L_full = np.linalg.cholesky(ideal_cov)
Cell16_CholeskyFull ==
    /\ pc = "cell16"
    /\ LET c == Cholesky(ideal_cov, n_C)
       IN IF c.ok
          THEN /\ L_full' = c.L
               /\ pc' = "gp_kernel"
               /\ err' = err
          ELSE /\ err' = LinAlgError("L_full")
               /\ pc' = "error"
               /\ UNCHANGED L_full
    /\ UNCHANGED <<lit, example_design, np_random, draws, design, n_C, n_V,
                   n_T, noise_level, rho1, dist2, K_noise, L_noise, noise,
                   i_t, ideal_cov, inten, K, L, snr, sqrt_v, betas_simulated,
                   signal, Y, scan_onsets, brsa>>
    /\ UNCHANGED auxVars

\* np.exp(-dist2 / smooth_width**2 / 2.0 - inten_diff2 / inten_kernel**2 / 2.0)
\*   * tau**2 + np.eye(n_V) * tau**2 * 0.001          (FP2 units)
KGP(d2, it, sw, ik, tau_, n) ==
    [i \in 0 .. n - 1 |-> [j \in 0 .. n - 1 |->
        LET id2 == (it[i] - it[j]) * (it[i] - it[j])
            y == (d2[i][j] * FP2 * FP2) \div (2 * sw * sw)
                 + (id2 * FP) \div ((2 * ik * ik) \div FP)
        IN (ExpNeg(y) * (tau_ * tau_)) \div FP2
           + (IF i = j THEN (tau_ * tau_) \div 1000 ELSE 0)]]

\* inten = np.random.rand(n_V) * 20.0; inten_diff2; K
Cell16_Kernel ==
    /\ pc = "gp_kernel"
    /\ LET u == Rand(np_random, n_V)
           it == [v \in 0 .. n_V - 1 |-> FMul(u[v], 20 * FP)]
       IN /\ inten' = it
          /\ K' = KGP(dist2, it, lit.smooth_width, lit.inten_kernel, lit.tau, n_V)
          /\ draws' = Append(draws, Call("inten", "np.random.rand", n_V, u))
    /\ np_random' = AdvanceBy(np_random, n_V)
    /\ pc' = "chol_K"
    /\ UNCHANGED <<err, lit, example_design, design, n_C, n_V, n_T,
                   noise_level, rho1, dist2, K_noise, L_noise, noise, i_t,
                   ideal_cov, L_full, L, snr, sqrt_v, betas_simulated, signal,
                   Y, scan_onsets, brsa>>
    /\ UNCHANGED auxVars

\* L = np.linalg.cholesky(K)
Cell16_CholeskyK ==
    /\ pc = "chol_K"
    /\ LET c == Cholesky(K, n_V)
       IN IF c.ok
          THEN /\ L' = c.L
               /\ pc' = "signal"
               /\ err' = err
          ELSE /\ err' = LinAlgError("L")
               /\ pc' = "error"
               /\ UNCHANGED L
    /\ UNCHANGED <<lit, example_design, np_random, draws, design, n_C, n_V,
                   n_T, noise_level, rho1, dist2, K_noise, L_noise, noise,
                   i_t, ideal_cov, L_full, inten, K, snr, sqrt_v,
                   betas_simulated, signal, Y, scan_onsets, brsa>>
    /\ UNCHANGED auxVars

\* np.random.randn(n_C, n_V): the variates fill the array row by row
RandnMatrix(st, rows, cols) ==
    LET z == Randn(st, rows * cols)
    IN [c \in 0 .. rows - 1 |-> [v \in 0 .. cols - 1 |-> z[c * cols + v]]]

\* betas scaled by the amplitude of the neighbouring voxel
Betas_NeighbourAmplitude(Lf, Z, sv, nc, nv) ==
    [c \in 0 .. nc - 1 |-> [v \in 0 .. nv - 1 |->
        FMul(Sum([k \in 0 .. nc - 1 |-> FMul(Lf[c][k], Z[k][v])], nc),
             sv[(v + 1) % nv])]]

\* np.dot(L_full, Z) * sqrt_v
Betas(Lf, Z, sv, nc, nv) ==
    [c \in 0 .. nc - 1 |-> [v \in 0 .. nv - 1 |->
        FMul(Sum([k \in 0 .. nc - 1 |-> FMul(Lf[c][k], Z[k][v])], nc), sv[v])]]

\* Signal leaving out the last condition
Signal_LastConditionDropped(dt, b, nt, nc, nv) ==
    [t \in 0 .. nt - 1 |-> [v \in 0 .. nv - 1 |->
        Sum([c \in 0 .. nc - 2 |-> FMul(dt[t][c], b[c][v])], nc - 1)]]

\* np.dot(design.design_task, betas)
Signal(dt, b, nt, nc, nv) ==
    [t \in 0 .. nt - 1 |-> [v \in 0 .. nv - 1 |->
        Sum([c \in 0 .. nc - 1 |-> FMul(dt[t][c], b[c][v])], nc)]]

\* snr, sqrt_v, betas_simulated, signal, Y = signal + noise
Cell16_Signal ==
    /\ pc = "signal"
    /\ LET z == Randn(np_random, n_V)
           st1 == AdvanceBy(np_random, n_V)
           g == Dot(L, z, n_V)
           s == [v \in 0 .. n_V - 1 |-> FMul(FExp(g[v]), lit.snr_level)]
           sv == [v \in 0 .. n_V - 1 |-> FMul(noise_level[v], s[v])]
           Z == RandnMatrix(st1, n_C, n_V)
           b == Betas(L_full, Z, sv, n_C, n_V)
           sig == Signal(design.design_task, b, n_T, n_C, n_V)
       IN /\ snr' = s
          /\ sqrt_v' = sv
          /\ betas_simulated' = b
          /\ signal' = sig
          /\ Y' = [t \in 0 .. n_T - 1 |->
                     [v \in 0 .. n_V - 1 |-> sig[t][v] + noise[t][v]]]
          /\ np_random' = AdvanceBy(st1, n_C * n_V)
          /\ draws' = draws \o
                <<Call("snr", "np.random.randn", n_V, z),
                  Call("betas_simulated", "np.random.randn", n_C * n_V,
                       Randn(st1, n_C * n_V))>>
    /\ pc' = "cell18"
    /\ UNCHANGED <<err, lit, example_design, design, n_C, n_V, n_T,
                   noise_level, rho1, dist2, K_noise, L_noise, noise, i_t,
                   ideal_cov, L_full, inten, K, L, scan_onsets, brsa>>
    /\ UNCHANGED auxVars

\* ------------------------------------------------------------------------
\* Cell 18: the onset of each run
\* ------------------------------------------------------------------------
\* the points of the linspace with the first one dropped instead of the last
ScanOnsets_FirstDropped(nTR, nrun) ==
    [k \in 0 .. nrun - 1 |-> ((k + 1) * nTR) \div nrun]

\* np.int32(np.linspace(0, n_TR, num=n_run + 1)[:-1])
ScanOnsets(nTR, nrun) == [k \in 0 .. nrun - 1 |-> (k * nTR) \div nrun]

Cell18 ==
    /\ pc = "cell18"
    /\ scan_onsets' = ScanOnsets(design.n_TR, lit.n_run)
    /\ pc' = "cell20"
    /\ UNCHANGED <<err, lit, example_design, np_random, draws, design, n_C,
                   n_V, n_T, noise_level, rho1, dist2, K_noise, L_noise,
                   noise, i_t, ideal_cov, L_full, inten, K, L, snr, sqrt_v,
                   betas_simulated, signal, Y, brsa>>
    /\ UNCHANGED auxVars

\* ------------------------------------------------------------------------
\* Cell 20: the estimator (brainiak.reprsimil.brsa.BRSA)
\* ------------------------------------------------------------------------
\* an argument that is not passed
None == -1

\* BRSA(GP_space=..., GP_inten=..., n_nureg=...)
BRSA(GP_space, GP_inten, n_nureg) ==
    [GP_space |-> GP_space, GP_inten |-> GP_inten, n_nureg |-> n_nureg,
     errors |-> {}, attrs |-> {}, numerics |-> FALSE]

\* the dimensions of the arguments disagree
ShapeMismatch(a) ==
    \/ a.design_rows # a.X_rows
    \/ a.coords_rows # None /\ a.coords_rows # a.X_cols
    \/ \E k \in DOMAIN a.scan_onsets :
           a.scan_onsets[k] < 0 \/ a.scan_onsets[k] > a.X_rows - 1

\* only the spatial prior's input is looked for
MissingInput_SpaceOnly(est, a) == est.GP_space /\ a.coords_rows = None

\* a Gaussian-Process prior is requested without its input
MissingInput(est, a) ==
    \/ est.GP_space /\ a.coords_rows = None
    \/ est.GP_inten /\ a.inten_len = None

\* the result attributes of a fit that succeeds
FitAttrs(est) ==
    {"U_", "C_", "nSNR_", "rho_", "beta_", "beta0_"}
    \cup (IF est.GP_space THEN {"lGPspace_", "bGP_"} ELSE {})
    \cup (IF est.GP_inten THEN {"lGPinten_", "bGP_"} ELSE {})

\* the shapes are looked at only once the fitting has run
Fit_ValidatesAfterFitting(est, a) ==
    LET errs == (IF ShapeMismatch(a) THEN {"ShapeMismatch"} ELSE {})
                \cup (IF MissingInput(est, a) THEN {"MissingInput"} ELSE {})
    IN [est EXCEPT !.errors = errs,
                   !.numerics = ~MissingInput(est, a),
                   !.attrs = IF errs = {} THEN FitAttrs(est) ELSE {}]

\* brsa.fit(X, design, coords, inten, scan_onsets): the arguments are
\* validated when the call is made; numerical work starts only if they pass
Fit(est, a) ==
    LET errs == (IF ShapeMismatch(a) THEN {"ShapeMismatch"} ELSE {})
                \cup (IF MissingInput(est, a) THEN {"MissingInput"} ELSE {})
    IN [est EXCEPT !.errors = errs,
                   !.numerics = (errs = {}),
                   !.attrs = IF errs = {} THEN FitAttrs(est) ELSE {}]

Cell20 ==
    /\ pc = "cell20"
    /\ brsa' = Fit(BRSA(TRUE, TRUE, 10),
                   [X_rows |-> n_T, X_cols |-> n_V, design_rows |-> n_T,
                    coords_rows |-> n_V, inten_len |-> n_V,
                    scan_onsets |-> scan_onsets])
    /\ pc' = "done"
    /\ UNCHANGED <<err, lit, example_design, np_random, draws, design, n_C,
                   n_V, n_T, noise_level, rho1, dist2, K_noise, L_noise,
                   noise, i_t, ideal_cov, L_full, inten, K, L, snr, sqrt_v,
                   betas_simulated, signal, Y, scan_onsets>>
    /\ UNCHANGED auxVars

\* ------------------------------------------------------------------------
\* The notebook run, top to bottom
\* ------------------------------------------------------------------------
Literals ==
    [seed : 10 .. 10 + MaxSeed,
     n_run : 1 .. MaxRun,
     ROI_edge : ROIEdges,
     noise : NoiseBounds,
     rho : RhoBounds,
     noise_smooth_width : NoiseWidths,
     cov : CovLiterals,
     tau : Taus]

\* the state after cell 2 (imports, np.random.seed) has run
Init ==
    /\ \E l \in Literals :
          lit = [seed |-> l.seed, n_run |-> l.n_run, ROI_edge |-> l.ROI_edge,
                 noise_bot |-> l.noise[1], noise_top |-> l.noise[2],
                 rho1_bot |-> l.rho[1], rho1_top |-> l.rho[2],
                 noise_smooth_width |-> l.noise_smooth_width,
                 cov |-> l.cov, snr_level |-> 60, tau |-> l.tau,
                 smooth_width |-> 300, inten_kernel |-> 400]
    /\ example_design \in [n_TR : 1 .. MaxTR, n_col : DesignColumns,
                           id : DesignFiles]
    /\ np_random = SeedState(lit.seed)
    /\ draws = <<>>
    /\ pc = "cell7"
    /\ err = NoError
    /\ design = Unset /\ n_C = 0 /\ n_V = 0 /\ n_T = 0
    /\ noise_level = Unset /\ rho1 = Unset /\ dist2 = Unset
    /\ K_noise = Unset /\ L_noise = Unset /\ noise = Unset /\ i_t = 0
    /\ ideal_cov = Unset /\ L_full = Unset
    /\ inten = Unset /\ K = Unset /\ L = Unset /\ snr = Unset
    /\ sqrt_v = Unset /\ betas_simulated = Unset /\ signal = Unset
    /\ Y = Unset /\ scan_onsets = Unset
    /\ brsa = Unset
    /\ ideal_corr = Unset /\ regressor = Unset /\ betas_point = Unset
    /\ fit_args = Unset

Next ==
    \/ Cell7
    \/ Cell9_Params
    \/ Cell9_Cholesky
    \/ Cell9_Row0
    \/ Cell9_Loop
    \/ Cell9_Offset
    \/ Cell14
    \/ Cell16_CholeskyFull
    \/ Cell16_Kernel
    \/ Cell16_CholeskyK
    \/ Cell16_Signal
    \/ Cell18
    \/ Cell20

Spec == Init /\ [][Next]_vars

TypeOK ==
    /\ pc \in {"cell7", "cell9", "chol_noise", "noise0", "loop", "cell14",
               "cell16", "gp_kernel", "chol_K", "signal", "cell18", "cell20",
               "done", "error"}
    /\ np_random \in 0 .. LcgMod - 1

\* ------------------------------------------------------------------------
\* Properties of the notebook run
\* ------------------------------------------------------------------------
\* the standard-normal vector drawn for noise row t (third call onwards)
NoiseDraw(t) == draws[3 + t].vals

\* the AR(1) rows are all written and the offset is not yet added
RowsWritten == pc = "loop" /\ i_t >= n_T

\* the literals as the notebook writes them (the design file, the number of
\* runs, the size of the ROI and the seed left free)
NotebookLiterals ==
    /\ lit.noise_bot = 50 /\ lit.noise_top = 500
    /\ lit.rho1_bot = -20 /\ lit.rho1_top = 80
    /\ lit.noise_smooth_width = 1000
    /\ lit.cov = <<60, 80, 100>>
    /\ lit.tau = 80

\* C1: at every scan onset s > 0 the noise row s is generated without the
\* noise row s - 1: the AR(1) recursion restarts there, so row s is the
\* stationary start of a run, a function of the draw of time s alone.
C1_NoCarryOverAtRunOnset ==
    (RowsWritten /\ NotebookLiterals) =>
        \A k \in 1 .. lit.n_run - 1 :
            LET s == ScanOnsets(n_T, lit.n_run)[k]
            IN noise[s] = StationaryRow(L_noise, NoiseDraw(s), rho1, n_V)

\* the inputs of the two kernels are valid
ValidNoiseInputs ==
    /\ \A v \in 0 .. n_V - 1 : noise_level[v] > 0
    /\ lit.noise_smooth_width > 0

ValidGPInputs == lit.tau > 0 /\ lit.smooth_width > 0 /\ lit.inten_kernel > 0

C4_ZeroRhoRowsAreIndependentDraws ==
    (pc = "loop" /\ \A v \in 0 .. n_V - 1 : rho1[v] = 0) =>
        \A t \in 0 .. i_t - 1 : noise[t] = Dot(L_noise, NoiseDraw(t), n_V)

C4_Witness ==
    /\ RowsWritten
    /\ n_T >= 2
    /\ n_V = 4
    /\ \A v \in 0 .. n_V - 1 : rho1[v] = 0
    /\ \E v \in 0 .. n_V - 1 : noise[0][v] # 0 /\ noise[1][v] # 0

\* the simulator has produced the data
Simulated == pc \in {"cell18", "cell20", "done"}

Rows(M) == DOMAIN M
Cols(M) == DOMAIN M[0]

C7_InstabilityErrorAtCholesky ==
    /\ (K_noise # Unset /\ ~Cholesky(K_noise, n_V).ok) =>
          /\ pc \in {"chol_noise", "error"}
          /\ L_noise = Unset /\ noise = Unset /\ Y = Unset
          /\ pc = "error" =>
                /\ err.type = "NumericalInstability"
                /\ err.msg = "noise covariance not positive definite"
    /\ (ideal_cov # Unset /\ ~Cholesky(ideal_cov, n_C).ok) =>
          /\ pc \in {"cell16", "error"}
          /\ L_full = Unset /\ betas_simulated = Unset /\ Y = Unset
          /\ pc = "error" => err.type = "NumericalInstability"
    /\ (K # Unset /\ ~Cholesky(K, n_V).ok) =>
          /\ pc \in {"chol_K", "error"}
          /\ L = Unset /\ snr = Unset /\ Y = Unset
          /\ pc = "error" => err.type = "NumericalInstability"

\* the k-th variate the generator hands out after np.random.seed(seed)
Variate(seed, k) == AdvanceBy(seed % LcgMod, k + 1)

UniformOf(raw) == (raw * FP) \div LcgMod
NormalOf(raw) == ((raw % 5) - 2) * (FP \div 2)

UniformsAt(seed, off, n) ==
    [k \in 0 .. n - 1 |-> UniformOf(Variate(seed, off + k))]
NormalsAt(seed, off, n) ==
    [k \in 0 .. n - 1 |-> NormalOf(Variate(seed, off + k))]

\* the order in which a run consumes the stream: noise_level, rho1, the n_T
\* noise draws, the offset, inten, log-SNR, betas
StreamLayout(seed, nV, nT, nC) ==
    <<Call("noise_level", "np.random.rand", nV, UniformsAt(seed, 0, nV)),
      Call("rho1", "np.random.rand", nV, UniformsAt(seed, nV, nV)),
      Call("noise[0]", "np.random.randn", nV, NormalsAt(seed, 2 * nV, nV))>>
    \o [t \in 1 .. nT - 1 |->
          Call("noise[i_t]", "np.random.randn", nV,
               NormalsAt(seed, (2 + t) * nV, nV))]
    \o <<Call("offset", "np.random.randn", nV,
              NormalsAt(seed, (2 + nT) * nV, nV)),
         Call("inten", "np.random.rand", nV,
              UniformsAt(seed, (3 + nT) * nV, nV)),
         Call("snr", "np.random.randn", nV,
              NormalsAt(seed, (4 + nT) * nV, nV)),
         Call("betas_simulated", "np.random.randn", nC * nV,
              NormalsAt(seed, (5 + nT) * nV, nC * nV))>>

IsPrefix(a, b) == Len(a) <= Len(b) /\ \A k \in 1 .. Len(a) : a[k] = b[k]

\* the run is a function of the seed: the calls it makes on the generator,
\* their order and the variates they receive are fixed by the seed and the
\* dimensions, and noise_level, rho1, inten, noise, snr, betas_simulated and
\* Y are the values computed from those variates
C10_SeedDeterminesRun ==
    LET lay == StreamLayout(lit.seed, n_V, n_T, n_C)
        nl == [v \in 0 .. n_V - 1 |->
                 FMul(lay[1].vals[v], lit.noise_top - lit.noise_bot)
                 + lit.noise_bot]
    IN /\ pc # "cell7" => IsPrefix(draws, lay)
       /\ Simulated =>
             /\ draws = lay
             /\ np_random = Variate(lit.seed, (5 + n_T + n_C) * n_V - 1)
             /\ noise_level = nl
             /\ rho1 = [v \in 0 .. n_V - 1 |->
                          FMul(lay[2].vals[v], lit.rho1_top - lit.rho1_bot)
                          + lit.rho1_bot]
             /\ inten = [v \in 0 .. n_V - 1 |->
                           FMul(lay[4 + n_T].vals[v], 20 * FP)]
             /\ noise[0] = [v \in 0 .. n_V - 1 |->
                   StationaryRow(L_noise, lay[3].vals, rho1, n_V)[v]
                   + lay[3 + n_T].vals[v]]
             /\ snr = [v \in 0 .. n_V - 1 |->
                   FMul(FExp(Dot(L, lay[5 + n_T].vals, n_V)[v]),
                        lit.snr_level)]
             /\ betas_simulated =
                   Betas(L_full,
                         [c \in 0 .. n_C - 1 |-> [v \in 0 .. n_V - 1 |->
                             lay[6 + n_T].vals[c * n_V + v]]],
                         [v \in 0 .. n_V - 1 |-> FMul(nl[v], snr[v])],
                         n_C, n_V)
             /\ \A t \in 0 .. n_T - 1 : \A v \in 0 .. n_V - 1 :
                   Y[t][v] = signal[t][v] + noise[t][v]

\* the draws are made on a state object handed to the simulator, not on
\* the generator hidden behind the np.random module functions
ExplicitRandomState ==
    \A k \in DOMAIN draws :
        draws[k].via \notin {"np.random.rand", "np.random.randn"}

\* C10: two runs from the same seed consume the stream in the same order
\* (noise_level, rho1, the n_T noise draws, the offset, inten, log-SNR,
\* betas) and produce the same noise, snr, betas_simulated and Y, and the
\* random state is an explicit object passed to the simulator rather than
\* shared hidden state.
C10_SeededExplicitState ==
    NotebookLiterals => C10_SeedDeterminesRun /\ ExplicitRandomState

\* ------------------------------------------------------------------------
\* The fit call on its own: any estimator, any argument shapes
\* ------------------------------------------------------------------------
MaxFitDim == 2

FitDims == 1 .. MaxFitDim
Optional(S) == S \cup {None}

\* scan_onsets arguments: one or two onsets, in range or not
OnsetArgs ==
    UNION {[0 .. k - 1 -> -1 .. MaxFitDim] : k \in 1 .. 2}

FitArgs ==
    [X_rows : FitDims, X_cols : FitDims, design_rows : FitDims,
     coords_rows : Optional(FitDims), inten_len : Optional(FitDims),
     scan_onsets : OnsetArgs]

InitFit ==
    /\ pc = "fit"
    /\ \E gs \in BOOLEAN : \E gi \in BOOLEAN : brsa = BRSA(gs, gi, 10)
    /\ fit_args \in FitArgs
    /\ lit = Unset /\ example_design = Unset
    /\ np_random = 0 /\ draws = <<>>
    /\ err = NoError
    /\ design = Unset /\ n_C = 0 /\ n_V = 0 /\ n_T = 0
    /\ noise_level = Unset /\ rho1 = Unset /\ dist2 = Unset
    /\ K_noise = Unset /\ L_noise = Unset /\ noise = Unset /\ i_t = 0
    /\ ideal_cov = Unset /\ L_full = Unset
    /\ inten = Unset /\ K = Unset /\ L = Unset /\ snr = Unset
    /\ sqrt_v = Unset /\ betas_simulated = Unset /\ signal = Unset
    /\ Y = Unset /\ scan_onsets = Unset
    /\ ideal_corr = Unset /\ regressor = Unset /\ betas_point = Unset

\* brsa.fit(X=..., design=..., coords=..., inten=..., scan_onsets=...)
FitCall ==
    /\ pc = "fit"
    /\ brsa' = Fit(brsa, fit_args)
    /\ pc' = "fitted"
    /\ UNCHANGED <<err, lit, example_design, np_random, draws, design, n_C,
                   n_V, n_T, noise_level, rho1, dist2, K_noise, L_noise,
                   noise, i_t, ideal_cov, L_full, inten, K, L, snr, sqrt_v,
                   betas_simulated, signal, Y, scan_onsets>>
    /\ UNCHANGED auxVars

NextFit == FitCall

SpecFit == InitFit /\ [][NextFit]_vars

\* C8: a fit call with design rows # data rows, coordinate rows # data
\* columns or a scan onset outside 0 .. n_T - 1 fails with ShapeMismatch
\* before any numerical work and produces no result attribute.
C8_MismatchFailsBeforeNumerics ==
    (/\ pc = "fitted"
     /\ \/ fit_args.design_rows # fit_args.X_rows
        \/ fit_args.coords_rows \notin {None, fit_args.X_cols}
        \/ \E k \in DOMAIN fit_args.scan_onsets :
               fit_args.scan_onsets[k] \notin 0 .. fit_args.X_rows - 1)
    => /\ "ShapeMismatch" \in brsa.errors
       /\ ~brsa.numerics
       /\ brsa.attrs = {}

C8_Witness ==
    /\ pc = "fitted"
    /\ fit_args.design_rows = fit_args.X_rows
    /\ fit_args.coords_rows = fit_args.X_cols
    /\ fit_args.inten_len = fit_args.X_cols
    /\ fit_args.scan_onsets = [k \in 0 .. 1 |-> 2 * k]
    /\ fit_args.X_rows = 2
    /\ brsa.errors = {"ShapeMismatch"}

\* C9: with the spatial GP prior enabled and no coordinates, or the
\* intensity GP prior enabled and no intensities, the fit call fails with
\* MissingInput; the GP hyperparameter outputs (lGPspace_, lGPinten_, bGP_)
\* exist only when the corresponding GP prior is enabled.
C9_MissingInputAndGPOutputs ==
    pc = "fitted" =>
        /\ (\/ brsa.GP_space /\ fit_args.coords_rows = None
            \/ brsa.GP_inten /\ fit_args.inten_len = None)
           => "MissingInput" \in brsa.errors /\ brsa.attrs = {}
        /\ "lGPspace_" \in brsa.attrs => brsa.GP_space
        /\ "lGPinten_" \in brsa.attrs => brsa.GP_inten
        /\ "bGP_" \in brsa.attrs => brsa.GP_space \/ brsa.GP_inten

C9_Witness ==
    /\ pc = "fitted"
    /\ brsa.GP_space /\ ~brsa.GP_inten
    /\ fit_args.coords_rows = None
    /\ fit_args.inten_len = None
    /\ brsa.errors = {"MissingInput"}

\* ------------------------------------------------------------------------
\* The correlation matrix on its own: any covariance matrix
\* ------------------------------------------------------------------------
MaxCovRoot == 2

CorrDims == {2, 3}

\* the entries of a factor: multiples of one half, in FP units
CovRoots == {r * (FP \div 2) : r \in -MaxCovRoot .. MaxCovRoot}

\* A @ A.T for a factor A with two columns, in FP2 units
Gram(A, n) ==
    [i \in 0 .. n - 1 |-> [j \in 0 .. n - 1 |->
        A[i][0] * A[j][0] + A[i][1] * A[j][1]]]

\* the decimal x / FP2 is a float
IsFloat(x) ==
    LET f == FloatOfFixed(x)
    IN IF f.e >= 0 THEN f.m * 2 ^ f.e * FP2 = Abs(x)
       ELSE f.m * FP2 = Abs(x) * 2 ^ (0 - f.e)

\* ideal_cov is any symmetric positive semi-definite matrix of floats: a
\* matrix is one exactly if it is A @ A.T for some A
InitCorr ==
    /\ pc = "cell14"
    /\ n_C \in CorrDims
    /\ \E A \in [0 .. n_C - 1 -> [0 .. 1 -> CovRoots]] :
          /\ ideal_cov = Gram(A, n_C)
          /\ \A i \in 0 .. n_C - 1 : \A j \in 0 .. n_C - 1 :
                IsFloat(ideal_cov[i][j])
    /\ ideal_corr = Unset
    /\ lit = Unset /\ example_design = Unset
    /\ np_random = 0 /\ draws = <<>>
    /\ err = NoError
    /\ design = Unset /\ n_V = 0 /\ n_T = 0
    /\ noise_level = Unset /\ rho1 = Unset /\ dist2 = Unset
    /\ K_noise = Unset /\ L_noise = Unset /\ noise = Unset /\ i_t = 0
    /\ L_full = Unset
    /\ inten = Unset /\ K = Unset /\ L = Unset /\ snr = Unset
    /\ sqrt_v = Unset /\ betas_simulated = Unset /\ signal = Unset
    /\ Y = Unset /\ scan_onsets = Unset /\ brsa = Unset
    /\ regressor = Unset /\ betas_point = Unset /\ fit_args = Unset

\* the last statements of cell 14, on the covariance matrix given
Cell14_Corr ==
    /\ pc = "cell14"
    /\ ideal_corr' = CorrFromCov(FloatMatrix(ideal_cov, n_C), n_C)
    /\ pc' = "cell16"
    /\ UNCHANGED <<err, lit, example_design, np_random, draws, design, n_C,
                   n_V, n_T, noise_level, rho1, dist2, K_noise, L_noise,
                   noise, i_t, ideal_cov, L_full, inten, K, L, snr, sqrt_v,
                   betas_simulated, signal, Y, scan_onsets, brsa>>
    /\ UNCHANGED <<regressor, betas_point, fit_args>>

NextCorr == Cell14_Corr

SpecCorr == InitCorr /\ [][NextCorr]_vars

CorrDone == pc = "cell16" /\ ideal_corr # Unset

\* x = 1.0
IsOne(x) ==
    /\ x.k = "num" /\ x.s = 1
    /\ x.m = 2 ^ (MantBits - 1) /\ x.e = 1 - MantBits

\* -1 <= x <= 1
InUnitInterval(x) ==
    /\ x.k = "num"
    /\ x.m = 0 \/ x.e < 1 - MantBits \/ (x.e = 1 - MantBits /\ x.m = 2 ^ (MantBits - 1))

\* |x| - 1 in units of the roundoff 2^-MantBits, for |x| in [1/2, 2)
RoundoffsAboveOne(x) ==
    IF x.e = 1 - MantBits THEN 2 * (x.m - 2 ^ (MantBits - 1))
    ELSE x.m - 2 ^ MantBits

\* C3 (as stated): the correlation matrix of any valid covariance matrix
\* has every diagonal entry equal to 1 and every entry in [-1, 1].
C3_UnitDiagonalEntriesInUnitInterval ==
    CorrDone =>
        \A i \in 0 .. n_C - 1 :
            /\ IsOne(ideal_corr[i][i])
            /\ \A j \in 0 .. n_C - 1 : InUnitInterval(ideal_corr[i][j])

\* C3 (as amended): the correlation matrix of a symmetric positive
\* semi-definite covariance matrix whose diagonal is strictly positive has
\* every diagonal entry within four roundoffs of 1 and every entry in
\* [-1, 1] widened by four roundoffs.
C3_UnitDiagonalUpToRounding ==
    (CorrDone /\ \A i \in 0 .. n_C - 1 : ideal_cov[i][i] > 0) =>
        \A i \in 0 .. n_C - 1 :
            /\ ideal_corr[i][i].k = "num" /\ ideal_corr[i][i].s = 1
            /\ ideal_corr[i][i].e \in {0 - MantBits, 1 - MantBits}
            /\ RoundoffsAboveOne(ideal_corr[i][i]) \in -4 .. 4
            /\ \A j \in 0 .. n_C - 1 :
                  \/ InUnitInterval(ideal_corr[i][j])
                  \/ /\ ideal_corr[i][j].k = "num"
                     /\ ideal_corr[i][j].e = 1 - MantBits
                     /\ RoundoffsAboveOne(ideal_corr[i][j]) <= 4

C3_Witness ==
    /\ CorrDone
    /\ n_C = 3
    /\ \A i \in 0 .. n_C - 1 : ideal_cov[i][i] > 0
    /\ \E i \in 0 .. n_C - 1 : ~IsOne(ideal_corr[i][i])
    /\ \E i \in 0 .. n_C - 1 : \E j \in 0 .. n_C - 1 :
          i # j /\ ideal_corr[i][j].s = -1 /\ ideal_corr[i][j].m # 0

\* ------------------------------------------------------------------------
\* Cell 24: the point estimate of the betas by least squares
\* ------------------------------------------------------------------------
\* Exact arithmetic: the designs have entries -1 and 1 and the betas are
\* multiples of one half, so every FMul below is exact; a solution is a
\* vector of fractions num / den, num in FP units.
MaxBeta == 2

\* the numbers of time points: fewer than, and as many as, the columns of
\* the largest regressor
OlsRows == {2, 3}

\* the constant column put after the design's columns
Regressor_ConstantAppended(dt, nt, nc) ==
    [t \in 0 .. nt - 1 |-> [c \in 0 .. nc |->
        IF c = nc THEN FP ELSE dt[t][c]]]

\* np.insert(design.design_task, 0, 1, axis=1)
Regressor(dt, nt, nc) ==
    [t \in 0 .. nt - 1 |-> [c \in 0 .. nc |->
        IF c = 0 THEN FP ELSE dt[t][c - 1]]]

IDot(a, b, n) == Sum([k \in 0 .. n - 1 |-> a[k] * b[k]], n)

\* the integer directions x # 0 with R @ x = 0; a matrix with entries -1
\* and 1 and at most three columns has its null space spanned by them
NullVectors(R, nt, ncol) ==
    {x \in [0 .. ncol - 1 -> -2 .. 2] :
        /\ \E k \in 0 .. ncol - 1 : x[k] # 0
        /\ \A t \in 0 .. nt - 1 : IDot(R[t], x, ncol) = 0}

FullColumnRank(R, nt, ncol) == NullVectors(R, nt, ncol) = {}

Parallel(a, b, n) ==
    \A i \in 0 .. n - 1 : \A j \in 0 .. n - 1 : a[i] * b[j] = a[j] * b[i]

\* x solves the normal equations R.T @ R @ x = R.T @ y
LeastSquares(R, y, x, nt, ncol) ==
    \A a \in 0 .. ncol - 1 :
        Sum([b \in 0 .. ncol - 1 |->
               FMul(Sum([t \in 0 .. nt - 1 |-> FMul(R[t][a], R[t][b])], nt),
                    x[b])], ncol)
        = Sum([t \in 0 .. nt - 1 |-> FMul(R[t][a], y[t])], nt)

\* x with its component along the null direction n removed, times den
ProjectOff(x, n, ncol) ==
    LET nn == IDot(n, n, ncol)
        xn == IDot(x, n, ncol)
    IN [k \in 0 .. ncol - 1 |-> nn * x[k] - xn * n[k]]

\* np.linalg.lstsq(R, y)[0] for one column y: the least-squares solution
\* of minimum norm, i.e. the one orthogonal to the null space of R
Lstsq(R, y, nt, ncol) ==
    LET box == [0 .. ncol - 1 -> {k * (FP \div 2) : k \in -MaxBeta .. MaxBeta}]
        part == CHOOSE x \in box : LeastSquares(R, y, x, nt, ncol)
        N == NullVectors(R, nt, ncol)
    IN IF N = {}
       THEN [k \in 0 .. ncol - 1 |-> [num |-> part[k], den |-> 1]]
       ELSE LET n1 == CHOOSE n \in N : TRUE
                d1 == IDot(n1, n1, ncol)
                p1 == ProjectOff(part, n1, ncol)
                rest == {n \in N : ~Parallel(n, n1, ncol)}
            IN IF rest = {}
               THEN [k \in 0 .. ncol - 1 |-> [num |-> p1[k], den |-> d1]]
               ELSE LET n2 == CHOOSE n \in rest : TRUE
                        m2 == ProjectOff(n2, n1, ncol)
                        d2 == IDot(m2, m2, ncol)
                        p2 == ProjectOff(p1, m2, ncol)
                    IN [k \in 0 .. ncol - 1 |->
                           [num |-> p2[k], den |-> d1 * d2]]

OlsDesigns(nt, nc) == [0 .. nt - 1 -> [0 .. nc - 1 -> {-FP, FP}]]
OlsBetas(nc, nv) ==
    [0 .. nc - 1 -> [0 .. nv - 1 ->
        {k * (FP \div 2) : k \in -MaxBeta .. MaxBeta}]]

\* any design, any betas, data without noise: Y = design @ betas
InitOLS ==
    /\ pc = "cell24"
    /\ n_T \in OlsRows
    /\ n_C \in 1 .. 2
    /\ n_V = 1
    /\ \E dt \in OlsDesigns(n_T, n_C) :
          design = [n_TR |-> n_T, design_task |-> dt]
    /\ betas_simulated \in OlsBetas(n_C, n_V)
    /\ signal = Signal(design.design_task, betas_simulated, n_T, n_C, n_V)
    /\ noise = [t \in 0 .. n_T - 1 |-> [v \in 0 .. n_V - 1 |-> 0]]
    /\ Y = [t \in 0 .. n_T - 1 |-> [v \in 0 .. n_V - 1 |->
               signal[t][v] + noise[t][v]]]
    /\ regressor = Unset /\ betas_point = Unset
    /\ lit = Unset /\ example_design = Unset
    /\ np_random = 0 /\ draws = <<>>
    /\ err = NoError
    /\ noise_level = Unset /\ rho1 = Unset /\ dist2 = Unset
    /\ K_noise = Unset /\ L_noise = Unset /\ i_t = 0
    /\ ideal_cov = Unset /\ L_full = Unset
    /\ inten = Unset /\ K = Unset /\ L = Unset /\ snr = Unset
    /\ sqrt_v = Unset /\ scan_onsets = Unset /\ brsa = Unset
    /\ ideal_corr = Unset /\ fit_args = Unset

\* regressor and betas_point (point_corr and point_cov are only plotted)
Cell24 ==
    /\ pc = "cell24"
    /\ regressor' = Regressor(design.design_task, n_T, n_C)
    /\ betas_point' =
          LET sol == [v \in 0 .. n_V - 1 |->
                        Lstsq(regressor', [t \in 0 .. n_T - 1 |-> Y[t][v]],
                              n_T, n_C + 1)]
          IN [r \in 0 .. n_C |-> [v \in 0 .. n_V - 1 |-> sol[v][r]]]
    /\ pc' = "cell25"
    /\ UNCHANGED <<err, lit, example_design, np_random, draws, design, n_C,
                   n_V, n_T, noise_level, rho1, dist2, K_noise, L_noise,
                   noise, i_t, ideal_cov, L_full, inten, K, L, snr, sqrt_v,
                   betas_simulated, signal, Y, scan_onsets, brsa>>
    /\ UNCHANGED <<ideal_corr, fit_args>>

NextOLS == Cell24

SpecOLS == InitOLS /\ [][NextOLS]_vars

\* betas_point[1:, :] is betas_simulated
BetasRecovered ==
    \A c \in 0 .. n_C - 1 : \A v \in 0 .. n_V - 1 :
        betas_point[c + 1][v].num
        = betas_simulated[c][v] * betas_point[c + 1][v].den

\* C5 (as stated): without noise and with a design of full column rank,
\* rows 1 .. n_C of the least-squares solution on the design with a
\* prepended constant column are exactly the betas that generated Y.
C5_RoundTripFullRankDesign ==
    (pc = "cell25" /\ FullColumnRank(design.design_task, n_T, n_C))
        => BetasRecovered

\* C5 (as amended): without noise, and when the design with the prepended
\* constant column has full column rank, rows 1 .. n_C of the least-squares
\* solution are the betas that generated Y.
C5_RoundTripFullRankRegressor ==
    (pc = "cell25" /\ FullColumnRank(regressor, n_T, n_C + 1))
        => BetasRecovered

C5_Witness ==
    /\ pc = "cell25"
    /\ n_T = 3 /\ n_C = 2
    /\ FullColumnRank(regressor, n_T, n_C + 1)
    /\ betas_simulated[0][0] # 0 /\ betas_simulated[1][0] # 0
    /\ betas_simulated[0][0] # betas_simulated[1][0]
    /\ BetasRecovered

\* ------------------------------------------------------------------------
\* Properties of the noise and signal simulators
\* ------------------------------------------------------------------------
\* the AR(1) loop is running or has just ended
InNoiseLoop == pc = "loop"

\* rows 0 .. i_t - 1 follow the recursion on the draws made for them, one
\* call of the generator per row, and the rows from i_t on are not written
RowsFollowRecursion ==
    InNoiseLoop =>
        /\ i_t \in 1 .. n_T
        /\ Len(draws) = 2 + i_t
        /\ \A v \in 0 .. n_V - 1 :
              noise[0][v] = FDiv(Dot(L_noise, NoiseDraw(0), n_V)[v],
                                 FSqrt(FP - FMul(rho1[v], rho1[v])))
        /\ \A t \in 1 .. i_t - 1 : \A v \in 0 .. n_V - 1 :
              noise[t][v] = FMul(noise[t - 1][v], rho1[v])
                            + Dot(L_noise, NoiseDraw(t), n_V)[v]
        /\ \A t \in i_t .. n_T - 1 : \A v \in 0 .. n_V - 1 : noise[t][v] = 0
        /\ \A t \in 1 .. i_t - 1 :
              draws[3 + t].what = "noise[i_t]" /\ draws[3 + t].n = n_V

\* a pass of the loop writes row i_t, the next row, and no other
RowWrittenOnceInOrder ==
    (InNoiseLoop /\ pc' = "loop") =>
        /\ i_t' = i_t + 1
        /\ \A t \in 0 .. n_T - 1 : t # i_t => noise'[t] = noise[t]
        /\ draws' # draws /\ IsPrefix(draws, draws')

OffsetStep == pc = "loop" /\ pc' = "cell14"

\* the offset is added, or was added before
OffsetAdded ==
    pc \in {"cell14", "cell16", "gp_kernel", "chol_K", "signal", "cell18",
            "cell20", "done"}

BetaDraw(k, v) == draws[6 + n_T].vals[k * n_V + v]

\* betas_simulated is assigned
BetasSimulated ==
    pc \in {"cell18", "cell20", "done"}

\* C13: the simulated betas of voxel v are noise_level[v] * snr[v] times
\* L_full applied to that voxel's own column of draws, with the one
\* L_full = cholesky(ideal_cov) for all voxels: no draw and no amplitude of
\* another voxel enters; and every snr[v] is positive.
C13_BetasPerVoxelAmplitude ==
    BetasSimulated =>
        /\ Len(draws) = 6 + n_T
        /\ draws[6 + n_T].what = "betas_simulated"
        /\ draws[6 + n_T].n = n_C * n_V
        /\ LET f == Cholesky(ideal_cov, n_C)
           IN f.ok /\ L_full = f.L
        /\ \A v \in 0 .. n_V - 1 :
              /\ snr[v] > 0
              /\ sqrt_v[v] = FMul(noise_level[v], snr[v])
              /\ \A c \in 0 .. n_C - 1 :
                    betas_simulated[c][v]
                    = FMul(Sum([k \in 0 .. n_C - 1 |->
                                   FMul(L_full[c][k], BetaDraw(k, v))], n_C),
                           FMul(noise_level[v], snr[v]))

C13_Witness ==
    /\ BetasSimulated
    /\ n_V = 4
    /\ \E v \in 0 .. n_V - 1 : \E w \in 0 .. n_V - 1 :
          /\ sqrt_v[v] # sqrt_v[w]
          /\ \E c \in 0 .. n_C - 1 :
                /\ betas_simulated[c][v] # 0
                /\ BetaDraw(c, v) # BetaDraw(c, w)

\* the design as read from the file, one run long
OriginalDesign == ReadDesign(example_design)

\* the design is tiled
DesignTiled == pc # "cell7"

\* scan_onsets is assigned
OnsetsComputed == pc \in {"cell20", "done"}

\* copy k of the tiled design is the original design without its last column
RunBlockIsOriginal(k) ==
    \A r \in 0 .. OriginalDesign.n_TR - 1 :
        /\ DOMAIN design.design_task[k * OriginalDesign.n_TR + r]
              = 0 .. OriginalDesign.n_col - 2
        /\ \A c \in 0 .. OriginalDesign.n_col - 2 :
              design.design_task[k * OriginalDesign.n_TR + r][c]
              = OriginalDesign.design_task[r][c]

\* C14: for n_run >= 1 runs of n_TR >= 1 time points, the tiled design
\* consists of n_run copies of the original design without its last column,
\* and scan_onsets has n_run entries, starts at 0, is strictly increasing
\* and below n_T = n_run * n_TR, its k-th entry k * n_TR being the first row
\* of the k-th copy.
C14_ScanOnsetsAtRunBoundaries ==
    /\ DesignTiled =>
          /\ lit.n_run >= 1 /\ OriginalDesign.n_TR >= 1
          /\ n_T = lit.n_run * OriginalDesign.n_TR
          /\ design.n_TR = n_T
          /\ DOMAIN design.design_task = 0 .. n_T - 1
          /\ \A k \in 0 .. lit.n_run - 1 : RunBlockIsOriginal(k)
    /\ OnsetsComputed =>
          /\ DOMAIN scan_onsets = 0 .. lit.n_run - 1
          /\ scan_onsets[0] = 0
          /\ \A k \in 0 .. lit.n_run - 1 :
                /\ scan_onsets[k] = k * OriginalDesign.n_TR
                /\ scan_onsets[k] < n_T
                /\ k > 0 => scan_onsets[k - 1] < scan_onsets[k]

C14_Witness ==
    /\ OnsetsComputed
    /\ lit.n_run = 2 /\ OriginalDesign.n_TR = 2
    /\ scan_onsets[1] = 2
    /\ design.design_task[0] # design.design_task[1]
    /\ design.design_task[2] = design.design_task[0]

\* noise_level and rho1 are assigned
ParamsDrawn == pc \notin {"cell7", "cell9"}

\* the bounds written in the notebook: 0.5 .. 5.0 and -0.2 .. 0.8
NotebookBounds ==
    /\ lit.noise_bot = 50 /\ lit.noise_top = 500
    /\ lit.rho1_bot = -20 /\ lit.rho1_top = 80

\* C15: every noise_level lies in [noise_bot, noise_top] and every rho1 in
\* [rho1_bot, rho1_top]; with the notebook's bounds every noise_level is
\* positive and every |rho1| is below 1, so that 1 - rho1^2 is positive and
\* the scaling of row 0 neither divides by zero nor takes the root of a
\* negative number.
C15_ParametersWithinBounds ==
    ParamsDrawn =>
        \A v \in 0 .. n_V - 1 :
            /\ lit.noise_bot <= noise_level[v]
            /\ noise_level[v] <= lit.noise_top
            /\ lit.rho1_bot <= rho1[v]
            /\ rho1[v] <= lit.rho1_top
            /\ NotebookBounds =>
                  /\ noise_level[v] > 0
                  /\ Abs(rho1[v]) < FP
                  /\ FP - FMul(rho1[v], rho1[v]) > 0
                  /\ FSqrt(FP - FMul(rho1[v], rho1[v])) > 0

C15_Witness ==
    /\ pc = "loop"
    /\ NotebookBounds
    /\ n_V = 4
    /\ \E v \in 0 .. n_V - 1 : \E w \in 0 .. n_V - 1 :
          /\ rho1[v] < 0 /\ rho1[w] > 0
          /\ noise_level[v] # noise_level[w]
          /\ noise_level[v] > lit.noise_bot /\ noise_level[v] < lit.noise_top

====
